---- MODULE Spec2Model ----
(***************************************************************************)
(* DataAdapter (extension-support/lib/data_adapter.js): the RecordsWatcher *)
(* and TypeWatcher caches, the two watcher registries of the adapter, the  *)
(* subscription of flushWatchers to the run loop's 'end' event, and the    *)
(* release functions handed to the host.                                   *)
(*                                                                         *)
(* Tracked state is modelled with dirty flags: a cache created by          *)
(* createCache re-runs on getValue when it has no value yet or when a tag  *)
(* it consumed during its last run was dirtied since.                      *)
(***************************************************************************)
EXTENDS Integers, Sequences, FiniteSets, TLC

\* The live record arrays the getRecords of a host that overrides the hook can
\* return, and the records.
Colls == {"c1", "c2"}
Records == {"r1", "r2"}

\* The arrays the adapter's own getRecords makes, in the order of its calls.
NewArrays == <<"a1", "a2", "a3", "a4", "a5", "a6">>

\* Every record array of a run.
Arrays == Colls \cup {NewArrays[i] : i \in 1..Len(NewArrays)}

\* The arrays, records, model names and type lists of the runs that follow one
\* array's watchers through their reports.
WatchedColls == {"c1"}
WatchedNames == {"post"}
WatchedTypeLists == {<<"post">>}

\* The array and the records the store changes in the runs that follow the
\* registries, and the callbacks the host passes where their identity is not
\* followed.
CoordColls == {"c1"}
CoordRecords == {"r1"}
CoordCallbacks == {"k1"}

\* Model names the host registers; two of them share one record array.
ModelNames == {"post", "article", "comment"}

\* Identities of the callback sets a host passes to a watch call.
CallbackSets == {"k1", "k2"}

\* At most this many watchModelTypes calls are made in one run.
MaxWatchModelTypes == 2

\* What getModelTypes (lines 479-499) can return at a watchModelTypes call: no
\* type under the adapter's own detect (lines 381-383), which accepts no class,
\* whatever the host's getRecords is; the model types of the store under a host
\* whose detect accepts the model classes of its store.
TypeLists == {<<>>, <<"post">>, <<"post", "comment">>}

VARIABLES
  override,         \* the host overrides getRecords (line 539 is not the method called)
  made,             \* the number of arrays the adapter's own getRecords has returned
  tracked,          \* the host overrides the record hooks of wrapRecord with hooks that read the record
  contents,         \* record array -> its records, in iteration order
  recordsWatchers,  \* this.recordsWatchers, in Map insertion order
  typeWatchers,     \* this.typeWatchers, in Map insertion order
  releaseMethods,   \* this.releaseMethods
  subs,             \* occurrences of flushWatchers among backburner's 'end' callbacks
  recordHandles,    \* record arrays whose RecordsWatcher release function the host holds
  typeReleases,     \* the release functions watchModelTypes returned so far
  nextRelease,      \* identity given to the next watchModelTypes release function
  destroyed,        \* willDestroy has run
  lastOp,           \* the operation of the last step, what it returned and whether it threw
  calls,            \* revalidate calls and host callbacks made by the last step, in order
  rep,              \* history: record array -> record -> what its watcher last reported
  everPresent,      \* history: records that were in the array during its watcher's lifetime
  seenAtReval,      \* history: records that were in the array at some revalidate() call
  snap,             \* history: the array's records at the watcher's previous revalidate()
  clean,            \* history: watchers revalidated since the last mutation they could see
  violations,       \* history: the reporting rules a callback has broken so far
  released,         \* history: arrays whose release function was called since their RecordsWatcher was created
  creator,          \* history: record array -> the callbacks of the call that created its watcher
  later,            \* history: record array -> the callbacks of the later calls that found its watcher
  diff,             \* history: record array -> what happened since its watcher's previous revalidate()
  typeSnap          \* history: record array -> the array at its TypeWatcher's revalidate() calls

vars == <<override, made, tracked, contents, recordsWatchers, typeWatchers, releaseMethods, subs,
          recordHandles, typeReleases, nextRelease, destroyed, lastOp, calls,
          rep, everPresent, seenAtReval, snap, clean, violations, released, creator,
          later, diff, typeSnap>>

\* The history of the reports of one array's watchers, and the whole history.
reports == <<rep, everPresent, seenAtReval, snap, clean, violations>>

\* The history of the callers of watchRecords.
callers == <<released, creator, later>>

hist == <<reports, callers, diff, typeSnap>>

----------------------------------------------------------------------------
\* Sequence helpers.

SeqSet(s) == {s[i] : i \in 1..Len(s)}

RECURSIVE MapWrap(_, _)

----------------------------------------------------------------------------
\* Host hooks.

\* getRecords() (lines 539-541): a new empty array at every call, whatever the
\* name; n is the number of arrays it has returned before.
getRecords(n) == NewArrays[n + 1]

\* The getRecords of a host that overrides the hook: the live array of the
\* store for a model name, the same array at every call.
HostGetRecords(modelName) == IF modelName = "comment" THEN "c2" ELSE "c1"

\* this.getRecords(klass, modelName) as the adapter calls it (lines 319, 410 and
\* 459): the array returned and the adapter after the call.
ThisGetRecords(K, modelName) ==
  IF K.override
  THEN [records |-> HostGetRecords(modelName), K |-> K]
  ELSE [records |-> getRecords(K.made), K |-> [K EXCEPT !.made = @ + 1]]

\* wrapRecord(record)
wrapRecord(record) == [object |-> record, color |-> "null"]

\* getRecordColumnValues, getRecordKeywords, getRecordFilterValues and
\* getRecordColor (lines 572-610) read no field of the record: the records whose
\* fields a wrapRecord(record) call reads with them.
RecordHooksRead(record) == {}

\* The same for a host that overrides the hooks with hooks that read the fields
\* of the record the store sets.
HostRecordHooksRead(record) == {record}

\* The records whose fields this.wrapRecord(record) reads (lines 553-562).
WrapRecordReads(K, record) ==
  IF K.tracked THEN HostRecordHooksRead(record) ELSE RecordHooksRead(record)

\* wrapModelType(klass, name) (lines 458-470): count is the length, at the call,
\* of the array getRecords returns.
wrapModelType(K, name, cont) ==
  LET g == ThisGetRecords(K, name)
  IN [wrapped |-> [name |-> name, count |-> Len(cont[g.records])], K |-> g.K]

MapWrap(s, i) ==
  IF i > Len(s) THEN <<>> ELSE <<wrapRecord(s[i].record)>> \o MapWrap(s, i + 1)

----------------------------------------------------------------------------
\* RecordsWatcher.

\* A record cache whose hasBeenAdded flag starts out set.
NewRecordCacheAlreadyAdded(record) ==
  [record |-> record, hasBeenAdded |-> TRUE, dirty |-> TRUE]

\* The cache of one record: createCache at lines 44-51, not yet forced.
NewRecordCache(record) == [record |-> record, hasBeenAdded |-> FALSE, dirty |-> TRUE]

\* recordCaches.get(record): the position of the record's cache, 0 when absent.
CacheIndex(recordCaches, record) ==
  IF \E i \in 1..Len(recordCaches) : recordCaches[i].record = record
  THEN CHOOSE i \in 1..Len(recordCaches) : recordCaches[i].record = record
  ELSE 0

\* A getValue that re-runs a record cache at every call.
RecordCacheAlwaysStale(rc) == TRUE

\* A getValue that takes a cache that never ran for a valid one.
RecordCacheStaleOnceRun(rc) == rc.dirty /\ rc.hasBeenAdded

\* getValue(recordCache) re-runs the cache's function when this holds.
RecordCacheStale(rc) == rc.dirty

\* Lines 39-58 for the i-th record of the array and on.
RECURSIVE IterateRecords(_, _, _)
IterateRecords(records, i, st) ==
  IF i > Len(records) THEN st
  ELSE
    LET record == records[i]
        known == CacheIndex(st.recordCaches, record)
        caches1 == IF known = 0
                   THEN Append(st.recordCaches, NewRecordCache(record))
                   ELSE st.recordCaches
        k == CacheIndex(caches1, record)
        rc == caches1[k]
        forced == [caches1 EXCEPT ![k] = [rc EXCEPT !.hasBeenAdded = TRUE, !.dirty = FALSE]]
        st1 == IF RecordCacheStale(rc)
               THEN IF ~rc.hasBeenAdded
                    THEN [st EXCEPT !.recordCaches = forced,
                                    !.added = Append(@, wrapRecord(record))]
                    ELSE [st EXCEPT !.recordCaches = forced,
                                    !.updated = Append(@, wrapRecord(record))]
               ELSE [st EXCEPT !.recordCaches = caches1]
    IN IterateRecords(records, i + 1, [st1 EXCEPT !.seen = @ \cup {record}])

\* A removal pass that reports the unseen records and keeps their caches.
RemovalPassKeepsCaches(st) ==
  [st EXCEPT
     !.removed = [i \in 1..Len(SelectSeq(st.recordCaches, LAMBDA rc : rc.record \notin st.seen)) |->
                    [object |-> SelectSeq(st.recordCaches,
                                          LAMBDA rc : rc.record \notin st.seen)[i].record,
                     color |-> "null"]]]

\* A removal pass that stops after the first record it removes.
RemovalPassFirstOnly(st) ==
  LET unseen == SelectSeq(st.recordCaches, LAMBDA rc : rc.record \notin st.seen)
  IN IF unseen = <<>> THEN st
     ELSE [st EXCEPT
             !.removed = <<[object |-> unseen[1].record, color |-> "null"]>>,
             !.recordCaches = SelectSeq(st.recordCaches,
                                        LAMBDA rc : rc.record # unseen[1].record)]

\* A removal pass without untrack: wrapRecord reads the removed records in the
\* frame of the array cache, which then depends on their fields.
RemovalPassTracked(st) ==
  [st EXCEPT
     !.removed = MapWrap(SelectSeq(st.recordCaches, LAMBDA rc : rc.record \notin st.seen), 1),
     !.polled = @ \cup (SeqSet([i \in 1..Len(st.recordCaches) |-> st.recordCaches[i].record])
                        \ st.seen),
     !.recordCaches = SelectSeq(st.recordCaches, LAMBDA rc : rc.record \in st.seen)]

\* Lines 63-70: the caches whose record was not seen are reported and deleted.
\* The pass runs inside untrack: the reads of wrapRecord add nothing to polled,
\* the records whose fields the array cache depends on outside a record cache.
RemovalPass(st) ==
  [st EXCEPT
     !.removed = MapWrap(SelectSeq(st.recordCaches, LAMBDA rc : rc.record \notin st.seen), 1),
     !.recordCaches = SelectSeq(st.recordCaches, LAMBDA rc : rc.record \in st.seen)]

\* One entry of the log of a step.
Call(cb, key, by, list) == [cb |-> cb, key |-> key, by |-> by, list |-> list]

\* A dispatch that reports the removed records first.
DispatchRemovedFirst(w, st) ==
  (IF Len(st.removed) > 0 THEN <<[cb |-> "recordsRemoved", key |-> w.records, by |-> w.by,
                                  list |-> st.removed]>> ELSE <<>>)
  \o (IF Len(st.added) > 0 THEN <<[cb |-> "recordsAdded", key |-> w.records, by |-> w.by,
                                   list |-> st.added]>> ELSE <<>>)
  \o (IF Len(st.updated) > 0 THEN <<[cb |-> "recordsUpdated", key |-> w.records, by |-> w.by,
                                     list |-> st.updated]>> ELSE <<>>)

\* Lines 72-82.
Dispatch(w, st) ==
  (IF Len(st.added) > 0 THEN <<Call("recordsAdded", w.records, w.by, st.added)>> ELSE <<>>)
  \o (IF Len(st.updated) > 0 THEN <<Call("recordsUpdated", w.records, w.by, st.updated)>> ELSE <<>>)
  \o (IF Len(st.removed) > 0 THEN <<Call("recordsRemoved", w.records, w.by, st.removed)>> ELSE <<>>)

\* new RecordsWatcher(records, recordsAdded, recordsUpdated, recordsRemoved, release)
\* (lines 21-28).  release is the callback the constructor was given, told by the
\* array its closure holds; arrDirty: the array cache has no value yet or a tag
\* it consumed in its own frame was dirtied; polled: the records whose fields it
\* read in its own frame.
NewRecordsWatcher(records, by, release) ==
  [records |-> records, by |-> by, release |-> release, recordCaches |-> <<>>,
   arrDirty |-> TRUE, polled |-> {}]

\* getValue(this.recordArrayCache) re-runs when the array's tag or the tag of a
\* record cache forced in the last run was dirtied (or nothing is memoized yet).
RecordArrayCacheStale(w) ==
  w.arrDirty \/ \E i \in 1..Len(w.recordCaches) : w.recordCaches[i].dirty

\* RecordsWatcher.revalidate(): the watcher afterwards and the calls made.  The
\* log tells each revalidate() call and each run of the array cache's function.
RevalidateRecords(w, cont) ==
  LET entry == <<Call("revalidateRecords", w.records, "", <<>>)>>
  IN IF RecordArrayCacheStale(w)
     THEN LET st0 == [recordCaches |-> w.recordCaches, added |-> <<>>, updated |-> <<>>,
                      removed |-> <<>>, seen |-> {}, polled |-> {}]
              st2 == RemovalPass(IterateRecords(cont[w.records], 1, st0))
          IN [w |-> [w EXCEPT !.recordCaches = st2.recordCaches, !.arrDirty = FALSE,
                              !.polled = st2.polled],
              calls |-> entry \o <<Call("recordArrayCache", w.records, "", <<>>)>>
                        \o Dispatch(w, st2)]
     ELSE [w |-> w, calls |-> entry]

----------------------------------------------------------------------------
\* TypeWatcher.

\* A TypeWatcher whose hasBeenAccessed flag starts out set.
NewTypeWatcherAccessed(records, modelName, by, release) ==
  [records |-> records, modelName |-> modelName, by |-> by, release |-> release,
   hasBeenAccessed |-> TRUE, dirty |-> TRUE]

\* new TypeWatcher(records, onChange, release) (lines 91-111); release is the
\* callback the constructor was given, told by the array its closure holds.
NewTypeWatcher(records, modelName, by, release) ==
  [records |-> records, modelName |-> modelName, by |-> by, release |-> release,
   hasBeenAccessed |-> FALSE, dirty |-> TRUE]

\* A revalidate() that runs the watcher's function at every call.
RevalidateTypeUnmemoized(K, w, cont) ==
  LET t == wrapModelType(K, w.modelName, cont)
  IN [w |-> [w EXCEPT !.dirty = FALSE, !.hasBeenAccessed = TRUE],
      calls |-> <<[cb |-> "revalidateType", key |-> w.records, by |-> "", list |-> <<>>]>>
                \o (IF w.hasBeenAccessed
                    THEN <<[cb |-> "typesUpdated", key |-> w.records, by |-> w.by,
                            list |-> <<t.wrapped>>]>>
                    ELSE <<>>),
      K |-> IF w.hasBeenAccessed THEN t.K ELSE K]

\* TypeWatcher.revalidate() (lines 113-115) with the cache's function (lines
\* 98-110); onChange (lines 412-414) wraps the model type and calls typesUpdated.
\* K is the adapter, whose getRecords onChange calls.
RevalidateType(K, w, cont) ==
  LET entry == <<Call("revalidateType", w.records, "", <<>>)>>
      t == wrapModelType(K, w.modelName, cont)
  IN IF w.dirty
     THEN IF w.hasBeenAccessed
          THEN [w |-> [w EXCEPT !.dirty = FALSE],
                calls |-> entry \o <<Call("typesUpdated", w.records, w.by, <<t.wrapped>>)>>,
                K |-> t.K]
          ELSE [w |-> [w EXCEPT !.dirty = FALSE, !.hasBeenAccessed = TRUE], calls |-> entry,
                K |-> K]
     ELSE [w |-> w, calls |-> entry, K |-> K]

----------------------------------------------------------------------------
\* The run loop's event list (backburner.on / backburner.off / the 'end' trigger).
\* on() appends the callback even when it is already listed; off() removes every
\* occurrence of the callback and throws a TypeError ('Cannot off() callback that
\* does not exist') when there is none; the event calls each listed occurrence.

on(n) == n + 1

\* Log entries of backburner.on and backburner.off calls: the number of
\* registered watchers of both kinds and the subscription count at the call.
LogOn(K) == Call("on", "", "", <<Len(K.rw) + Len(K.tw), K.subs>>)

LogOff(K) == Call("off", "", "", <<Len(K.rw) + Len(K.tw), K.subs>>)

off(n) == 0

offThrows(n) == n = 0

----------------------------------------------------------------------------
\* The adapter.  K is the adapter's state while one operation runs:
\* rw, tw, rm and subs are recordsWatchers, typeWatchers, releaseMethods and the
\* subscription count; ret is what the operation returns; threw tells that an
\* exception is propagating to the caller; calls is the log of the operation so
\* far.

\* A lookup that never finds the array's watcher.
WatcherIndexNeverFound(watchers, records) == 0

\* recordsWatchers.get(records) / typeWatchers.get(records): position, 0 when absent.
WatcherIndex(watchers, records) ==
  IF \E i \in 1..Len(watchers) : watchers[i].records = records
  THEN CHOOSE i \in 1..Len(watchers) : watchers[i].records = records
  ELSE 0

Keys(watchers) == {watchers[i].records : i \in 1..Len(watchers)}

\* Map.delete(records)
MapDelete(watchers, records) == SelectSeq(watchers, LAMBDA w : w.records # records)

\* The release callback of a RecordsWatcher (lines 335-341).
RecordsRelease(K, records) ==
  IF Len(K.rw) = 1
  THEN IF offThrows(K.subs)
       THEN [K EXCEPT !.threw = TRUE, !.calls = Append(@, LogOff(K))]
       ELSE [K EXCEPT !.subs = off(@), !.calls = Append(@, LogOff(K)),
                      !.rw = MapDelete(@, records)]
  ELSE [K EXCEPT !.rw = MapDelete(@, records)]

\* The release callback of a TypeWatcher (lines 425-431).
TypeRelease(K, records) ==
  IF Len(K.tw) = 1
  THEN IF offThrows(K.subs)
       THEN [K EXCEPT !.threw = TRUE, !.calls = Append(@, LogOff(K))]
       ELSE [K EXCEPT !.subs = off(@), !.calls = Append(@, LogOff(K)),
                      !.tw = MapDelete(@, records)]
  ELSE [K EXCEPT !.tw = MapDelete(@, records)]

\* A watchRecords that registers the new watcher and leaves it unrevalidated.
WatchRecordsOpNoRevalidate(K, modelName, by, cont) ==
  LET g == ThisGetRecords(K, modelName)
      records == g.records
      K0 == g.K
  IN IF WatcherIndex(K0.rw, records) = 0
     THEN LET K1 == IF Len(K0.rw) = 0
                    THEN [K0 EXCEPT !.subs = on(@), !.calls = Append(@, LogOn(K0))]
                    ELSE K0
              w == NewRecordsWatcher(records, by, records)
          IN [K1 EXCEPT !.rw = Append(@, w), !.ret = <<w.release>>]
     ELSE [K0 EXCEPT !.ret = <<K0.rw[WatcherIndex(K0.rw, records)].release>>]

\* watchRecords (lines 317-350): the watcher of the array is looked up and, when
\* there is none, created with its release callback (lines 335-341), registered
\* and revalidated; the call returns the release callback of the watcher found
\* or created (line 349).
WatchRecordsOp(K, modelName, by, cont) ==
  LET g == ThisGetRecords(K, modelName)
      records == g.records
      K0 == g.K
  IN IF WatcherIndex(K0.rw, records) = 0
     THEN LET K1 == IF Len(K0.rw) = 0
                    THEN [K0 EXCEPT !.subs = on(@), !.calls = Append(@, LogOn(K0))]
                    ELSE K0
              rv == RevalidateRecords(NewRecordsWatcher(records, by, records), cont)
          IN [K1 EXCEPT !.rw = Append(@, rv.w), !.calls = @ \o rv.calls,
                        !.ret = <<rv.w.release>>]
     ELSE [K0 EXCEPT !.ret = <<K0.rw[WatcherIndex(K0.rw, records)].release>>]

\* observeModelType (lines 408-439): the array of the type, the adapter after
\* the call and the release callback of the TypeWatcher found or created, which
\* the call returns (line 438).
ObserveModelType(K, modelName, by, cont) ==
  LET g == ThisGetRecords(K, modelName)
      records == g.records
      K0 == g.K
  IN IF WatcherIndex(K0.tw, records) = 0
     THEN LET K1 == IF Len(K0.tw) = 0
                    THEN [K0 EXCEPT !.subs = on(@), !.calls = Append(@, LogOn(K0))]
                    ELSE K0
              rv == RevalidateType(K1, NewTypeWatcher(records, modelName, by, records), cont)
          IN [records |-> records,
              K |-> [rv.K EXCEPT !.tw = Append(@, rv.w), !.calls = @ \o rv.calls],
              release |-> rv.w.release]
     ELSE [records |-> records, K |-> K0,
           release |-> K0.tw[WatcherIndex(K0.tw, records)].release]

\* The map over modelTypes in watchModelTypes (lines 269-274), from the i-th type on;
\* acc collects typesToSend, the release functions observeModelType returned and
\* the arrays of the observed types.
RECURSIVE ObserveTypes(_, _, _, _, _, _)
ObserveTypes(K, types, i, by, cont, acc) ==
  IF i > Len(types) THEN [K |-> K, acc |-> acc]
  ELSE LET t == wrapModelType(K, types[i], cont)
           ob == ObserveModelType(t.K, types[i], by, cont)
       IN ObserveTypes(ob.K, types, i + 1, by, cont,
                       [typesToSend |-> Append(acc.typesToSend, t.wrapped),
                        fns |-> Append(acc.fns, ob.release),
                        arrays |-> Append(acc.arrays, ob.records)])

\* The lists of watchModelTypes before the first type.
NoTypes == [typesToSend |-> <<>>, fns |-> <<>>, arrays |-> <<>>]

\* watchModelTypes (lines 264-284); id is the identity of the release function,
\* which the call pushes on releaseMethods and returns.
WatchModelTypesOp(K, types, by, cont, id) ==
  LET ob == ObserveTypes(K, types, 1, by, cont, NoTypes)
      release == [id |-> id, fns |-> ob.acc.fns]
  IN [ob.K EXCEPT !.calls = @ \o <<Call("typesAdded", "", by, ob.acc.typesToSend)>>,
                  !.rm = Append(@, release),
                  !.ret = <<release>>]

\* releaseMethods.forEach((fn) => fn()) at line 279, from the i-th function on.
RECURSIVE ReleaseEach(_, _, _)
ReleaseEach(K, fns, i) ==
  IF i > Len(fns) \/ K.threw THEN K
  ELSE ReleaseEach(TypeRelease(K, fns[i]), fns, i + 1)

\* The release function watchModelTypes returns (lines 278-281).
TypesRelease(K, release) ==
  LET K1 == ReleaseEach(K, release.fns, 1)
  IN IF K1.threw THEN K1
     ELSE [K1 EXCEPT !.rm = SelectSeq(@, LAMBDA m : m.id # release.id)]

\* typeWatchers.forEach((watcher) => watcher.release()) at line 365: the entries
\* are visited in insertion order, an entry deleted before its turn is skipped.
RECURSIVE ReleaseTypeWatchers(_, _, _)
ReleaseTypeWatchers(K, keys, i) ==
  IF i > Len(keys) \/ K.threw THEN K
  ELSE ReleaseTypeWatchers(
         IF keys[i] \in Keys(K.tw) THEN TypeRelease(K, keys[i]) ELSE K, keys, i + 1)

\* recordsWatchers.forEach((watcher) => watcher.release()) at line 366.
RECURSIVE ReleaseRecordsWatchers(_, _, _)
ReleaseRecordsWatchers(K, keys, i) ==
  IF i > Len(keys) \/ K.threw THEN K
  ELSE ReleaseRecordsWatchers(
         IF keys[i] \in Keys(K.rw) THEN RecordsRelease(K, keys[i]) ELSE K, keys, i + 1)

\* this.releaseMethods.forEach((fn) => fn()) at line 368: the native forEach
\* visits index i of the array as it is when index i is reached, up to the length
\* the array had at the start, while each fn removes itself from the array.
RECURSIVE ReleaseMethodsForEach(_, _, _)
ReleaseMethodsForEach(K, i, n) ==
  IF i > n \/ K.threw \/ i > Len(K.rm) THEN K
  ELSE ReleaseMethodsForEach(TypesRelease(K, K.rm[i]), i + 1, n)

KeySeq(watchers) == [i \in 1..Len(watchers) |-> watchers[i].records]

\* willDestroy (lines 362-369).
WillDestroyOp(K) ==
  LET K1 == ReleaseTypeWatchers(K, KeySeq(K.tw), 1)
      K2 == ReleaseRecordsWatchers(K1, KeySeq(K1.rw), 1)
  IN ReleaseMethodsForEach(K2, 1, Len(K2.rm))

RecordCallbacks == {"recordsAdded", "recordsUpdated", "recordsRemoved"}

\* What a host callback does when the adapter calls it during a flush: nothing,
\* or a call of a release function the host holds.
NoRelease == [id |-> 0, fns |-> <<>>]

NoTarget == [kind |-> "none", records |-> "", release |-> NoRelease]

RecordsTarget(c) == [kind |-> "records", records |-> c, release |-> NoRelease]

TypesTarget(release) == [kind |-> "types", records |-> "", release |-> release]

\* The host whose callbacks call nothing back.
Quiet == [onTypes |-> NoTarget, onRecords |-> NoTarget]

\* A host callback calls the release function target names; the log tells the call.
HostRelease(K, target) ==
  IF target.kind = "records"
  THEN RecordsRelease([K EXCEPT !.calls = Append(@, Call("releaseRecords", target.records, "", <<>>))],
                      target.records)
  ELSE IF target.kind = "types"
  THEN TypesRelease([K EXCEPT !.calls = Append(@, Call("releaseTypes", "", "", target.release.fns))],
                    target.release)
  ELSE K

\* The calls one revalidate() makes, from the i-th on: host.onTypes is what the
\* host's typesUpdated does before it returns, host.onRecords what its
\* recordsAdded, recordsUpdated and recordsRemoved do.  An exception thrown in a
\* callback leaves the cache's function at once.
RECURSIVE Deliver(_, _, _, _)
Deliver(K, log, i, host) ==
  IF i > Len(log) \/ K.threw THEN K
  ELSE LET e == log[i]
           K1 == [K EXCEPT !.calls = Append(@, e)]
       IN Deliver(IF e.cb = "typesUpdated" THEN HostRelease(K1, host.onTypes)
                  ELSE IF e.cb \in RecordCallbacks THEN HostRelease(K1, host.onRecords)
                  ELSE K1,
                  log, i + 1, host)

\* this.typeWatchers.forEach((watcher) => watcher.revalidate()) at line 353: the
\* entries are visited in insertion order, an entry deleted before its turn is
\* skipped.
RECURSIVE FlushTypeWatchers(_, _, _, _, _)
FlushTypeWatchers(K, keys, i, cont, host) ==
  IF i > Len(keys) \/ K.threw THEN K
  ELSE LET k == WatcherIndex(K.tw, keys[i])
       IN IF k = 0 THEN FlushTypeWatchers(K, keys, i + 1, cont, host)
          ELSE LET rv == RevalidateType(K, K.tw[k], cont)
               IN FlushTypeWatchers(Deliver([rv.K EXCEPT !.tw[k] = rv.w], rv.calls, 1, host),
                                    keys, i + 1, cont, host)

\* this.recordsWatchers.forEach((watcher) => watcher.revalidate()) at line 354.
RECURSIVE FlushRecordsWatchers(_, _, _, _, _)
FlushRecordsWatchers(K, keys, i, cont, host) ==
  IF i > Len(keys) \/ K.threw THEN K
  ELSE LET k == WatcherIndex(K.rw, keys[i])
       IN IF k = 0 THEN FlushRecordsWatchers(K, keys, i + 1, cont, host)
          ELSE LET rv == RevalidateRecords(K.rw[k], cont)
               IN FlushRecordsWatchers(Deliver([K EXCEPT !.rw[k] = rv.w], rv.calls, 1, host),
                                       keys, i + 1, cont, host)

\* flushWatchers (lines 352-355).  The log tells where the pass starts and, when
\* it returns, the arrays that have a TypeWatcher and a RecordsWatcher then.
FlushWatchers(K, cont, host) ==
  LET K0 == [K EXCEPT !.calls = Append(@, Call("flushWatchers", "", "", <<>>))]
      K1 == FlushTypeWatchers(K0, KeySeq(K0.tw), 1, cont, host)
      K2 == FlushRecordsWatchers(K1, KeySeq(K1.rw), 1, cont, host)
  IN IF K2.threw THEN K2
     ELSE [K2 EXCEPT !.calls = Append(@, Call("flushed", "", "",
                                              <<KeySeq(K2.tw), KeySeq(K2.rw)>>))]

\* The 'end' event: each listed occurrence of flushWatchers is called, the i-th
\* as long as the list still has one.
RECURSIVE TriggerEnd(_, _, _, _)
TriggerEnd(K, i, cont, host) ==
  IF i > K.subs \/ K.threw THEN K
  ELSE TriggerEnd(FlushWatchers(K, cont, host), i + 1, cont, host)

----------------------------------------------------------------------------
\* The operations.

\* An operation of a step: its name, the arrays or records it is about, what it
\* returned to the host and whether it threw instead.
Op(op, args) == [op |-> op, args |-> args, ret |-> <<>>, threw |-> FALSE]

\* The adapter as an operation finds it.
Adapter ==
  [rw |-> recordsWatchers, tw |-> typeWatchers, rm |-> releaseMethods, subs |-> subs,
   override |-> override, made |-> made, tracked |-> tracked, ret |-> <<>>,
   threw |-> FALSE,
   calls |-> <<>>]

\* The state after an operation that leaves the adapter as K and the arrays as cont.
Commit(K, cont, op) ==
  /\ recordsWatchers' = K.rw
  /\ typeWatchers' = K.tw
  /\ releaseMethods' = K.rm
  /\ subs' = K.subs
  /\ made' = K.made
  /\ override' = override
  /\ tracked' = tracked
  /\ calls' = K.calls
  /\ lastOp' = [op EXCEPT !.ret = K.ret, !.threw = K.threw]
  /\ contents' = cont

\* The host calls watchRecords(modelName, recordsAdded, recordsUpdated, recordsRemoved)
\* and keeps the function the call returns.  The array of the call is the one
\* its getRecords call returns; the adapter's own getRecords has an array left
\* to make.
WatchRecords(modelName, by) ==
  /\ ~destroyed
  /\ override \/ made < Len(NewArrays)
  /\ LET records == ThisGetRecords(Adapter, modelName).records
         K == WatchRecordsOp(Adapter, modelName, by, contents)
     IN /\ Commit(K, contents, Op("watchRecords", <<records>>))
        /\ recordHandles' = recordHandles \cup {K.ret[1]}
  /\ UNCHANGED <<typeReleases, nextRelease, destroyed>>

\* The host calls watchModelTypes(typesAdded, typesUpdated) while getModelTypes
\* returns types, and keeps the function the call returns.  The call makes two
\* getRecords calls for each type; the arrays of the call are those its
\* observeModelType calls observe.
WatchModelTypes(types, by) ==
  /\ ~destroyed
  /\ nextRelease <= MaxWatchModelTypes
  /\ override \/ made + 2 * Len(types) <= Len(NewArrays)
  /\ LET K == WatchModelTypesOp(Adapter, types, by, contents, nextRelease)
         arrays == ObserveTypes(Adapter, types, 1, by, contents, NoTypes).acc.arrays
     IN /\ Commit(K, contents, Op("watchModelTypes", arrays))
        /\ typeReleases' = typeReleases \cup {K.ret[1]}
  /\ nextRelease' = nextRelease + 1
  /\ UNCHANGED <<recordHandles, destroyed>>

\* The host calls the function a watchRecords call on array c returned.
ReleaseRecords(c) ==
  /\ ~destroyed
  /\ c \in recordHandles
  /\ Commit(RecordsRelease(Adapter, c), contents, Op("releaseRecords", <<c>>))
  /\ UNCHANGED <<recordHandles, typeReleases, nextRelease, destroyed>>

\* The host calls a function a watchModelTypes call returned.
ReleaseTypes(release) ==
  /\ ~destroyed
  /\ release \in typeReleases
  /\ Commit(TypesRelease(Adapter, release), contents, Op("releaseTypes", release.fns))
  /\ UNCHANGED <<recordHandles, typeReleases, nextRelease, destroyed>>

\* The release functions the host holds, as what a callback of it may call.
Targets ==
  {NoTarget} \cup {RecordsTarget(c) : c \in recordHandles}
             \cup {TypesTarget(release) : release \in typeReleases}

\* The run loop ends: backburner triggers 'end'.
BatchEnd(host) ==
  /\ ~destroyed
  /\ Commit(TriggerEnd(Adapter, 1, contents, host), contents, Op("batchEnd", <<>>))
  /\ UNCHANGED <<recordHandles, typeReleases, nextRelease, destroyed>>

\* The adapter is destroyed.
WillDestroy ==
  /\ ~destroyed
  /\ Commit(WillDestroyOp(Adapter), contents, Op("willDestroy", <<>>))
  /\ destroyed' = TRUE
  /\ UNCHANGED <<recordHandles, typeReleases, nextRelease>>

\* The array's tag is dirtied: the caches that iterated array c become stale.
TouchArray(K, c) ==
  [K EXCEPT !.rw = [i \in 1..Len(K.rw) |->
                      IF K.rw[i].records = c THEN [K.rw[i] EXCEPT !.arrDirty = TRUE]
                      ELSE K.rw[i]],
            !.tw = [i \in 1..Len(K.tw) |->
                      IF K.tw[i].records = c THEN [K.tw[i] EXCEPT !.dirty = TRUE]
                      ELSE K.tw[i]]]

\* A field of record r is set: the record caches that read it become stale.  A
\* record cache (lines 44-51) reads what its wrapRecord call reads, that is what
\* getRecordColumnValues, getRecordKeywords, getRecordFilterValues and
\* getRecordColor read; the reads of the removal pass are untracked.
TouchRecord(K, r) ==
  [K EXCEPT !.rw = [i \in 1..Len(K.rw) |->
                      [K.rw[i] EXCEPT !.recordCaches =
                         [j \in 1..Len(@) |->
                            IF r \in WrapRecordReads(K, @[j].record)
                            THEN [@[j] EXCEPT !.dirty = TRUE] ELSE @[j]],
                                      !.arrDirty =
                                         @ \/ \E q \in K.rw[i].polled : r \in WrapRecordReads(K, q)]]]

\* The host's store adds record r to array c.  The arrays of a store are those
\* the host's getRecords returns; an array the adapter's own getRecords made is
\* held by the adapter alone and stays empty.
AddRecord(c, r) ==
  /\ ~destroyed
  /\ override
  /\ r \notin SeqSet(contents[c])
  /\ Commit(TouchArray(Adapter, c), [contents EXCEPT ![c] = Append(@, r)],
            Op("addRecord", <<c, r>>))
  /\ UNCHANGED <<recordHandles, typeReleases, nextRelease, destroyed>>

\* The host's store removes record r from array c.
RemoveRecord(c, r) ==
  /\ ~destroyed
  /\ override
  /\ r \in SeqSet(contents[c])
  /\ Commit(TouchArray(Adapter, c),
            [contents EXCEPT ![c] = SelectSeq(@, LAMBDA x : x # r)],
            Op("removeRecord", <<c, r>>))
  /\ UNCHANGED <<recordHandles, typeReleases, nextRelease, destroyed>>

\* The host sets a field of record r (set(record, key, value)).
MutateRecord(r) ==
  /\ ~destroyed
  /\ override
  /\ Commit(TouchRecord(Adapter, r), contents, Op("mutateRecord", <<r>>))
  /\ UNCHANGED <<recordHandles, typeReleases, nextRelease, destroyed>>

\* What a watcher has told of a record: the last report (none, live after
\* added or updated, removed), whether it was ever reported removed, and whether
\* it was reported added again after a removal.
NoReport == [last |-> "none", wasRemoved |-> FALSE, readded |-> FALSE]

\* What happened to an array since its RecordsWatcher's previous revalidate():
\* prev, the records in the array at that call; touched, the records with a
\* tracked field set since; changed, whether a record was added or removed or a
\* record of the array had a field set since; gone, the records reported removed
\* and not reported added since; wasGoneTouched, the records that were in gone
\* and in touched when that call was made.
NoDiff == [prev |-> {}, touched |-> {}, changed |-> FALSE, gone |-> {}, wasGoneTouched |-> {}]

\* The array at its TypeWatcher's revalidate() calls: members, the records in
\* it at the latest call; before, those at the call before (at the same call for
\* the first); changed, whether a record was added or removed since the latest
\* call; wasChanged, the same at the latest call about the call before.
NoTypeSnap == [members |-> {}, before |-> {}, changed |-> FALSE, wasChanged |-> FALSE]

\* init (lines 163-169).
Init ==
  /\ override \in BOOLEAN
  /\ tracked \in {t \in BOOLEAN : t => override}
  /\ made = 0
  /\ contents = [c \in Arrays |-> <<>>]
  /\ recordsWatchers = <<>>
  /\ typeWatchers = <<>>
  /\ releaseMethods = <<>>
  /\ subs = 0
  /\ recordHandles = {}
  /\ typeReleases = {}
  /\ nextRelease = 1
  /\ destroyed = FALSE
  /\ lastOp = Op("init", <<>>)
  /\ calls = <<>>
  /\ rep = [c \in Arrays |-> [r \in Records |-> NoReport]]
  /\ everPresent = [c \in Arrays |-> {}]
  /\ seenAtReval = [c \in Arrays |-> {}]
  /\ snap = [c \in Arrays |-> {}]
  /\ clean = [records |-> {}, types |-> {}]
  /\ violations = {}
  /\ released = {}
  /\ creator = [c \in Arrays |-> ""]
  /\ later = [c \in Arrays |-> {}]
  /\ diff = [c \in Arrays |-> NoDiff]
  /\ typeSnap = [c \in Arrays |-> NoTypeSnap]

----------------------------------------------------------------------------
\* History variables, computed from the log of a step.

Objects(list) == {list[j].object : j \in 1..Len(list)}

\* The records the calls of callback cb of the watcher of array c were given.
Reported(log, cb, c) ==
  UNION {Objects(log[i].list) : i \in {n \in 1..Len(log) : log[n].cb = cb /\ log[n].key = c}}

\* The arrays whose watcher had revalidate() called, by log entries named cb.
Revalidated(log, cb) == {log[i].key : i \in {n \in 1..Len(log) : log[n].cb = cb}}

\* How many times the log holds entry cb for array c.
Count(log, cb, c) == Cardinality({n \in 1..Len(log) : log[n].cb = cb /\ log[n].key = c})

\* One callback's report of record r, given what was last reported of r
\* (h) and whether r was reported added in the same revalidation.
ReportOf(h, cb, addedInPass) ==
  [h |-> IF cb = "recordsRemoved" THEN [h EXCEPT !.last = "removed", !.wasRemoved = TRUE]
         ELSE IF cb = "recordsAdded" THEN [h EXCEPT !.last = "live", !.readded = @ \/ h.wasRemoved]
         ELSE [h EXCEPT !.last = "live"],
   bad |-> (IF cb = "recordsAdded" /\ h.last = "live" THEN {"addedTwice"} ELSE {})
           \cup (IF cb = "recordsUpdated" /\ (h.last # "live" \/ addedInPass)
                 THEN {"updatedBeforeAdded"} ELSE {})
           \cup (IF cb = "recordsRemoved" /\ h.last = "none"
                 THEN {"removedNeverAdded"} ELSE {})
           \cup (IF cb = "recordsRemoved" /\ h.last # "live"
                 THEN {"removedNotLive"} ELSE {})]

\* The history after the log from entry i on.  M.quiet tells that the watcher
\* being revalidated had been revalidated since the last mutation it could see;
\* M.passAdded holds the records reported added in the current revalidation.
RECURSIVE Monitor(_, _, _)
Monitor(M, log, i) ==
  IF i > Len(log) THEN M
  ELSE
    LET e == log[i]
        M1 ==
          IF e.cb = "revalidateRecords"
          THEN [M EXCEPT !.quiet = e.key \in M.clean.records, !.passAdded = {},
                         !.clean.records = @ \cup {e.key}]
          ELSE IF e.cb = "revalidateType"
          THEN [M EXCEPT !.quiet = e.key \in M.clean.types, !.passAdded = {},
                         !.clean.types = @ \cup {e.key}]
          ELSE IF e.cb \in RecordCallbacks
          THEN LET of(r) == ReportOf(M.rep[e.key][r], e.cb, r \in M.passAdded)
               IN [M EXCEPT
                     !.rep[e.key] = [r \in Records |->
                                       IF r \in Objects(e.list) THEN of(r).h ELSE @[r]],
                     !.passAdded = IF e.cb = "recordsAdded" THEN @ \cup Objects(e.list) ELSE @,
                     !.bad = @ \cup UNION {of(r).bad : r \in Objects(e.list)}
                               \cup (IF M.quiet THEN {"noisyRevalidate"} ELSE {})]
          ELSE IF e.cb = "typesUpdated"
          THEN [M EXCEPT !.bad = @ \cup (IF M.quiet THEN {"noisyRevalidate"} ELSE {})]
          ELSE M
    IN Monitor(M1, log, i + 1)

\* The step set a field of a record that the record hooks in use read.
TrackedSet == lastOp'.op = "mutateRecord" /\ tracked

\* The arrays a mutation of the step could show to a watcher.
Mutated ==
  IF lastOp'.op \in {"addRecord", "removeRecord"} THEN {lastOp'.args[1]}
  ELSE IF TrackedSet
       THEN {c \in Arrays : lastOp'.args[1] \in SeqSet(contents[c])}
       ELSE {}

\* The history variables of a step, from the step's log.  The history of an array
\* starts afresh when a watcher is created for it and is dropped when it has none.
HistoryStep ==
  LET createdR(c) == c \notin Keys(recordsWatchers) /\ c \in Keys(recordsWatchers')
      createdT(c) == c \notin Keys(typeWatchers) /\ c \in Keys(typeWatchers')
      live(c) == c \in Keys(recordsWatchers') /\ ~createdR(c)
      M0 == [rep |-> [c \in Arrays |-> IF live(c) THEN rep[c]
                                      ELSE [r \in Records |-> NoReport]],
             clean |-> [records |-> {c \in clean.records \ Mutated : live(c)},
                        types |-> {c \in clean.types \ Mutated :
                                     c \in Keys(typeWatchers') /\ ~createdT(c)}],
             bad |-> violations, quiet |-> FALSE, passAdded |-> {}]
      M == Monitor(M0, calls', 1)
      reval(c) == c \in Revalidated(calls', "revalidateRecords")
  IN /\ rep' = M.rep
     /\ clean' = M.clean
     /\ violations' = M.bad
     /\ everPresent' = [c \in Arrays |->
                  IF c \notin Keys(recordsWatchers') THEN {}
                  ELSE (IF live(c) THEN everPresent[c] ELSE {}) \cup SeqSet(contents'[c])]
     /\ seenAtReval' = [c \in Arrays |->
                  IF c \notin Keys(recordsWatchers') THEN {}
                  ELSE (IF live(c) THEN seenAtReval[c] ELSE {})
                       \cup (IF reval(c) THEN SeqSet(contents'[c]) ELSE {})]
     /\ snap' = [c \in Arrays |->
                  IF c \notin Keys(recordsWatchers') THEN {}
                  ELSE IF reval(c) THEN SeqSet(contents'[c])
                       ELSE IF live(c) THEN snap[c] ELSE {}]
     /\ UNCHANGED <<callers, diff, typeSnap>>

\* The history of the callers of watchRecords, at a step whose watchRecords call
\* (if it is one) passed the callbacks by.
CallerStep(by) ==
  LET created(c) == c \notin Keys(recordsWatchers) /\ c \in Keys(recordsWatchers')
      found(c) == /\ lastOp'.op = "watchRecords"
                  /\ lastOp'.args[1] = c
                  /\ c \in Keys(recordsWatchers)
  IN /\ released' = {c \in Arrays :
                       /\ ~created(c)
                       /\ \/ c \in released
                          \/ lastOp'.op = "releaseRecords" /\ lastOp'.args[1] = c}
     /\ creator' = [c \in Arrays |->
                  IF c \notin Keys(recordsWatchers') THEN ""
                  ELSE IF created(c) THEN by ELSE creator[c]]
     /\ later' = [c \in Arrays |->
                  IF c \notin Keys(recordsWatchers') \/ created(c) THEN {}
                  ELSE IF found(c) THEN later[c] \cup {by} ELSE later[c]]
     /\ UNCHANGED <<reports, diff, typeSnap>>

\* The history of one array's RecordsWatcher between two revalidate() calls.
DiffStep ==
  LET created(c) == c \notin Keys(recordsWatchers) /\ c \in Keys(recordsWatchers')
      base(c) == IF created(c) THEN NoDiff ELSE diff[c]
      reval(c) == c \in Revalidated(calls', "revalidateRecords")
      membership(c) == lastOp'.op \in {"addRecord", "removeRecord"} /\ lastOp'.args[1] = c
      field(c) == TrackedSet /\ lastOp'.args[1] \in SeqSet(contents[c])
  IN /\ diff' = [c \in Arrays |->
                  IF c \notin Keys(recordsWatchers') THEN NoDiff
                  ELSE IF reval(c)
                  THEN [prev |-> SeqSet(contents'[c]),
                        touched |-> {},
                        changed |-> FALSE,
                        gone |-> (base(c).gone \cup Reported(calls', "recordsRemoved", c))
                                 \ Reported(calls', "recordsAdded", c),
                        wasGoneTouched |-> base(c).gone \cap base(c).touched]
                  ELSE [base(c) EXCEPT
                          !.touched = @ \cup (IF TrackedSet THEN {lastOp'.args[1]} ELSE {}),
                          !.changed = @ \/ membership(c) \/ field(c)]]
     /\ UNCHANGED <<reports, callers, typeSnap>>

\* The history of one array's TypeWatcher between two revalidate() calls.
TypeStep ==
  LET created(c) == c \notin Keys(typeWatchers) /\ c \in Keys(typeWatchers')
      reval(c) == c \in Revalidated(calls', "revalidateType")
      membership(c) == lastOp'.op \in {"addRecord", "removeRecord"} /\ lastOp'.args[1] = c
  IN /\ typeSnap' = [c \in Arrays |->
                  IF c \notin Keys(typeWatchers') THEN NoTypeSnap
                  ELSE IF reval(c)
                  THEN [members |-> SeqSet(contents'[c]),
                        before |-> IF created(c) THEN SeqSet(contents'[c])
                                   ELSE typeSnap[c].members,
                        changed |-> FALSE,
                        wasChanged |-> ~created(c) /\ typeSnap[c].changed]
                  ELSE [typeSnap[c] EXCEPT !.changed = @ \/ membership(c)]]
     /\ UNCHANGED <<reports, callers, diff>>

\* The adapter with both registries: every operation on every array.
Next ==
  \/ \E m \in ModelNames, by \in CoordCallbacks : WatchRecords(m, by) /\ UNCHANGED hist
  \/ \E types \in TypeLists, by \in CoordCallbacks :
       WatchModelTypes(types, by) /\ UNCHANGED hist
  \/ \E c \in recordHandles : ReleaseRecords(c) /\ UNCHANGED hist
  \/ \E release \in typeReleases : ReleaseTypes(release) /\ UNCHANGED hist
  \/ BatchEnd(Quiet) /\ UNCHANGED hist
  \/ WillDestroy /\ UNCHANGED hist
  \/ \E c \in CoordColls, r \in CoordRecords : AddRecord(c, r) /\ UNCHANGED hist
  \/ \E c \in CoordColls, r \in CoordRecords : RemoveRecord(c, r) /\ UNCHANGED hist
  \/ \E r \in CoordRecords : MutateRecord(r) /\ UNCHANGED hist

Spec == Init /\ [][Next]_vars

\* The type lists of the runs that follow the lookups of the registries: those
\* of every run and a list whose two types have one record array.
DedupTypeLists == TypeLists \cup {<<"post", "article">>}

\* Both registries and the functions returned to the host, with every model
\* name and type list; the store changes no array, which a lookup does not read.
DedupNext ==
  \/ \E m \in ModelNames, by \in CoordCallbacks : WatchRecords(m, by) /\ UNCHANGED hist
  \/ \E types \in DedupTypeLists, by \in CoordCallbacks :
       WatchModelTypes(types, by) /\ UNCHANGED hist
  \/ \E c \in recordHandles : ReleaseRecords(c) /\ UNCHANGED hist
  \/ \E release \in typeReleases : ReleaseTypes(release) /\ UNCHANGED hist
  \/ BatchEnd(Quiet) /\ UNCHANGED hist
  \/ WillDestroy /\ UNCHANGED hist

SpecDedup == Init /\ [][DedupNext]_vars

\* One array with its RecordsWatcher and its TypeWatcher, with the history of
\* what the callbacks were told.
WatchNext ==
  \/ \E m \in WatchedNames, by \in CoordCallbacks : WatchRecords(m, by) /\ HistoryStep
  \/ \E types \in WatchedTypeLists, by \in CoordCallbacks : WatchModelTypes(types, by) /\ HistoryStep
  \/ \E c \in recordHandles : ReleaseRecords(c) /\ HistoryStep
  \/ \E release \in typeReleases : ReleaseTypes(release) /\ HistoryStep
  \/ BatchEnd(Quiet) /\ HistoryStep
  \/ \E c \in WatchedColls, r \in Records : AddRecord(c, r) /\ HistoryStep
  \/ \E c \in WatchedColls, r \in Records : RemoveRecord(c, r) /\ HistoryStep
  \/ \E r \in Records : MutateRecord(r) /\ HistoryStep

SpecWatch == Init /\ [][WatchNext]_vars

\* The records of the runs that follow the diffs of one RecordsWatcher.
DiffRecords == {"r1", "r2", "r3"}

\* One RecordsWatcher and its array, with what happened between its revalidations.
DiffNext ==
  \/ \E m \in WatchedNames, by \in CoordCallbacks : WatchRecords(m, by) /\ DiffStep
  \/ \E c \in recordHandles : ReleaseRecords(c) /\ DiffStep
  \/ BatchEnd(Quiet) /\ DiffStep
  \/ \E c \in WatchedColls, r \in DiffRecords : AddRecord(c, r) /\ DiffStep
  \/ \E c \in WatchedColls, r \in DiffRecords : RemoveRecord(c, r) /\ DiffStep
  \/ \E r \in DiffRecords : MutateRecord(r) /\ DiffStep

SpecDiff == Init /\ [][DiffNext]_vars

\* The TypeWatcher of one array, with the array at its revalidations.
TypeNext ==
  \/ \E types \in WatchedTypeLists, by \in CoordCallbacks : WatchModelTypes(types, by) /\ TypeStep
  \/ \E release \in typeReleases : ReleaseTypes(release) /\ TypeStep
  \/ BatchEnd(Quiet) /\ TypeStep
  \/ \E c \in WatchedColls, r \in Records : AddRecord(c, r) /\ TypeStep
  \/ \E c \in WatchedColls, r \in Records : RemoveRecord(c, r) /\ TypeStep
  \/ \E r \in Records : MutateRecord(r) /\ TypeStep

SpecTypes == Init /\ [][TypeNext]_vars

\* Both registries on one array, with the callers of watchRecords.
CallersNext ==
  \/ \E m \in WatchedNames, by \in CallbackSets : WatchRecords(m, by) /\ CallerStep(by)
  \/ \E types \in WatchedTypeLists, by \in CoordCallbacks :
       WatchModelTypes(types, by) /\ CallerStep("")
  \/ \E c \in recordHandles : ReleaseRecords(c) /\ CallerStep("")
  \/ \E release \in typeReleases : ReleaseTypes(release) /\ CallerStep("")
  \/ BatchEnd(Quiet) /\ CallerStep("")
  \/ \E c \in CoordColls, r \in CoordRecords : AddRecord(c, r) /\ CallerStep("")
  \/ \E c \in CoordColls, r \in CoordRecords : RemoveRecord(c, r) /\ CallerStep("")
  \/ \E r \in CoordRecords : MutateRecord(r) /\ CallerStep("")

SpecCallers == Init /\ [][CallersNext]_vars

\* Both registries, with host callbacks that call release functions back from
\* inside a flush.
ReentrantNext ==
  \/ \E m \in ModelNames, by \in CoordCallbacks : WatchRecords(m, by) /\ UNCHANGED hist
  \/ \E types \in WatchedTypeLists, by \in CoordCallbacks :
       WatchModelTypes(types, by) /\ UNCHANGED hist
  \/ \E c \in recordHandles : ReleaseRecords(c) /\ UNCHANGED hist
  \/ \E release \in typeReleases : ReleaseTypes(release) /\ UNCHANGED hist
  \/ \E onTypes \in Targets, onRecords \in Targets :
       BatchEnd([onTypes |-> onTypes, onRecords |-> onRecords]) /\ UNCHANGED hist
  \/ \E c \in CoordColls, r \in CoordRecords : AddRecord(c, r) /\ UNCHANGED hist
  \/ \E c \in CoordColls, r \in CoordRecords : RemoveRecord(c, r) /\ UNCHANGED hist
  \/ \E r \in CoordRecords : MutateRecord(r) /\ UNCHANGED hist

SpecReentrant == Init /\ [][ReentrantNext]_vars

----------------------------------------------------------------------------
\* The registries and the subscription to the 'end' event.

Watchers == Len(recordsWatchers) + Len(typeWatchers)

NoDupKeys(watchers) ==
  \A i, j \in 1..Len(watchers) : watchers[i].records = watchers[j].records => i = j

\* The log entries of the last step named cb.
Entries(cb) == {calls[n] : n \in {i \in 1..Len(calls) : calls[i].cb = cb}}

\* C1: flushWatchers is subscribed to the 'end' event if and only if at least
\* one watcher is registered in recordsWatchers or typeWatchers.
SubscribedIffWatched == (subs > 0) <=> (Watchers > 0)

\* C2: the adapter subscribes exactly when the first watcher of either kind is
\* registered and unsubscribes exactly when the last watcher of either kind is
\* torn down; it never subscribes while subscribed and never unsubscribes while
\* a watcher of either kind remains or while not subscribed.  A log entry of
\* on or off holds the number of registered watchers and the subscription
\* count found at the call; at an off the watcher being released still counts.
SubscribeAtFirstUnsubscribeAtLast ==
  [][/\ (Watchers = 0 /\ Watchers' > 0) => Entries("on")' # {}
     /\ (Watchers > 0 /\ Watchers' = 0) => Entries("off")' # {}
     /\ \A e \in Entries("on")' : e.list[1] = 0 /\ e.list[2] = 0
     /\ \A e \in Entries("off")' : e.list[1] = 1 /\ e.list[2] > 0]_vars

\* C3: calling the release function of a watcher that is already released
\* changes neither registry nor the subscription, and does not throw.
DoubleReleaseIdempotent ==
  [][/\ (lastOp'.op = "releaseRecords" /\ lastOp'.args[1] \notin Keys(recordsWatchers))
        => /\ recordsWatchers' = recordsWatchers
           /\ typeWatchers' = typeWatchers
           /\ subs' = subs
           /\ ~lastOp'.threw
     /\ (lastOp'.op = "releaseTypes" /\ SeqSet(lastOp'.args) \cap Keys(typeWatchers) = {})
        => /\ recordsWatchers' = recordsWatchers
           /\ typeWatchers' = typeWatchers
           /\ subs' = subs
           /\ ~lastOp'.threw]_vars

\* C4: after willDestroy both registries and releaseMethods are empty and
\* flushWatchers is not subscribed.
DestroyedIsEmpty ==
  destroyed => /\ recordsWatchers = <<>>
               /\ typeWatchers = <<>>
               /\ releaseMethods = <<>>
               /\ subs = 0
               /\ ~lastOp.threw

\* C5: each registry holds at most one watcher per record array; a watchRecords
\* call leaves the array it resolves to with exactly one RecordsWatcher and
\* returns the release function of that watcher; a watchModelTypes call leaves
\* each array its types resolve to with exactly one TypeWatcher, whose release
\* function is the one observeModelType returned for the type.
OneWatcherPerArray ==
  /\ NoDupKeys(recordsWatchers)
  /\ NoDupKeys(typeWatchers)
  /\ lastOp.op = "watchRecords" =>
       /\ Cardinality({i \in 1..Len(recordsWatchers) :
                         recordsWatchers[i].records = lastOp.args[1]}) = 1
       /\ \E i \in 1..Len(recordsWatchers) :
            /\ recordsWatchers[i].records = lastOp.args[1]
            /\ lastOp.ret = <<recordsWatchers[i].release>>
  /\ lastOp.op = "watchModelTypes" =>
       /\ Len(lastOp.ret) = 1
       /\ Len(lastOp.ret[1].fns) = Len(lastOp.args)
       /\ \A n \in 1..Len(lastOp.args) :
            /\ Cardinality({i \in 1..Len(typeWatchers) :
                              typeWatchers[i].records = lastOp.args[n]}) = 1
            /\ \E i \in 1..Len(typeWatchers) :
                 /\ typeWatchers[i].records = lastOp.args[n]
                 /\ lastOp.ret[1].fns[n] = typeWatchers[i].release

\* C5 witness: a watchRecords call found the array's watcher registered (it
\* neither subscribed nor revalidated) and returned its release function while
\* a second array is watched too, and two watchModelTypes calls before it had
\* each observed that array, which has one TypeWatcher.
DedupHit ==
  /\ ~destroyed
  /\ lastOp.op = "watchRecords"
  /\ lastOp.args = <<"c1">>
  /\ lastOp.ret = <<"c1">>
  /\ calls = <<>>
  /\ Len(recordsWatchers) = 2
  /\ Len(typeWatchers) = 1
  /\ Len(releaseMethods) = 2
  /\ \A i \in 1..Len(releaseMethods) : releaseMethods[i].fns = <<"c1">>

----------------------------------------------------------------------------
\* What one RecordsWatcher tells its callbacks over its lifetime.

\* The records the watcher of array c has reported added at least once.
AddedEver(c) == {r \in Records : rep[c][r].last # "none"}

\* C6: a record is reported updated only after it was reported added in an
\* earlier revalidation, reported removed only after it was reported added, and
\* reported added once per record cache: never again while it stays reported.
AddedBeforeUpdatedOrRemoved ==
  violations \cap {"addedTwice", "updatedBeforeAdded", "removedNeverAdded"} = {}

\* C6 witness: one revalidation reported a record updated and another removed,
\* after both had been reported added.
UpdatedAndRemovedReported ==
  /\ Reported(calls, "recordsUpdated", "c1") = {"r1"}
  /\ Reported(calls, "recordsRemoved", "c1") = {"r2"}
  /\ rep["c1"]["r1"].last = "live"
  /\ rep["c1"]["r2"].last = "removed"

\* C7 as stated: no record is reported removed, added again and removed again
\* by one watcher.
RemovedAtMostOnce ==
  \A c \in Arrays, r \in Records : ~(rep[c][r].last = "removed" /\ rep[c][r].readded)

\* C7 amended: a record is reported removed only while its last report is added
\* or updated, so at most once for each time it was reported added.
RemovedOncePerAdded == "removedNotLive" \notin violations

\* C7 witness: a record reported removed a second time, after it was reported
\* added again.
RemovedAgainAfterReadded ==
  /\ rep["c1"]["r1"].last = "removed"
  /\ rep["c1"]["r1"].readded
  /\ "r1" \in Reported(calls, "recordsRemoved", "c1")

\* C8 as stated: once the watcher has revalidated, the records it has reported
\* added are the records that were ever in the array.
AddedIsEverPresent ==
  \A c \in Revalidated(calls, "revalidateRecords") :
    c \in Keys(recordsWatchers) => AddedEver(c) = everPresent[c]

\* C8 amended: the records the watcher has reported added are the records that
\* were in the array at one of its revalidate() calls.
AddedIsSeenAtRevalidation ==
  \A c \in Keys(recordsWatchers) : AddedEver(c) = seenAtReval[c]

\* C8 witness: after a revalidation, one record has been reported added and
\* another, added and removed between two revalidations, has not.
SkippedBetweenRevalidations ==
  /\ "c1" \in Revalidated(calls, "revalidateRecords")
  /\ AddedEver("c1") = {"r1"}
  /\ everPresent["c1"] = {"r1", "r2"}

\* C9: a revalidate() of a watcher that was revalidated since the last change of
\* its array or of a record of its array invokes no callback.
RevalidateTwiceSilent == "noisyRevalidate" \notin violations

\* C9 witness: one 'end' event revalidated the RecordsWatcher and the TypeWatcher
\* of an array twice each; the first pass reported, the second had nothing to.
RevalidatedTwice ==
  /\ lastOp.op = "batchEnd"
  /\ Count(calls, "revalidateRecords", "c1") = 2
  /\ Count(calls, "revalidateType", "c1") = 2
  /\ Count(calls, "recordsAdded", "c1") = 1
  /\ Count(calls, "typesUpdated", "c1") = 1
  /\ clean = [records |-> {"c1"}, types |-> {"c1"}]

\* C10: an 'end' event revalidates every registered watcher exactly once, and
\* the RecordsWatcher reports the net change since its previous revalidation:
\* added are the records now in the array that were not in it then, removed
\* those in it then and not now, updated some of those in it both times.
OnePassWithNetDiff ==
  [][lastOp'.op = "batchEnd" =>
       /\ \A c \in Keys(typeWatchers') : Count(calls', "revalidateType", c) = 1
       /\ \A c \in Keys(recordsWatchers') :
            /\ Count(calls', "revalidateRecords", c) = 1
            /\ Reported(calls', "recordsAdded", c) = SeqSet(contents'[c]) \ snap[c]
            /\ Reported(calls', "recordsRemoved", c) = snap[c] \ SeqSet(contents'[c])
            /\ Reported(calls', "recordsUpdated", c) \subseteq snap[c] \cap SeqSet(contents'[c])]_vars

----------------------------------------------------------------------------
\* One revalidation of a RecordsWatcher.

\* The place of a callback in the order added, updated, removed.
Rank(cb) == IF cb = "recordsAdded" THEN 1 ELSE IF cb = "recordsUpdated" THEN 2 ELSE 3

\* Log entries i < j belong to one revalidate() call of the watcher of one array.
SameRevalidation(i, j) ==
  /\ i < j
  /\ calls[i].key = calls[j].key
  /\ \A n \in (i + 1)..j : ~(calls[n].cb = "revalidateRecords" /\ calls[n].key = calls[i].key)

\* C11: in one revalidate() of a RecordsWatcher each of recordsAdded,
\* recordsUpdated and recordsRemoved is called at most once, with a non-empty
\* list only, and the calls come in the order added, updated, removed.
DispatchOnceInOrder ==
  \A j \in 1..Len(calls) :
    calls[j].cb \in RecordCallbacks =>
      /\ Len(calls[j].list) > 0
      /\ \E i \in 1..(j - 1) : calls[i].cb = "revalidateRecords" /\ SameRevalidation(i, j)
      /\ \A i \in 1..(j - 1) :
           (calls[i].cb \in RecordCallbacks /\ SameRevalidation(i, j))
             => Rank(calls[i].cb) < Rank(calls[j].cb)

\* C11 witness: one revalidation called all three callbacks.
AllThreeDispatched ==
  /\ lastOp.op = "batchEnd"
  /\ Count(calls, "revalidateRecords", "c1") = 1
  /\ Count(calls, "recordsAdded", "c1") = 1
  /\ Count(calls, "recordsUpdated", "c1") = 1
  /\ Count(calls, "recordsRemoved", "c1") = 1

\* C12: a watchRecords call for an array that has no RecordsWatcher registers
\* one and revalidates it before it returns: recordsAdded is called once with
\* every record of the array in iteration order (not at all when the array is
\* empty), recordsUpdated and recordsRemoved are not called.
InitialRevalidationReportsAll ==
  [][(lastOp'.op = "watchRecords" /\ lastOp'.args[1] \notin Keys(recordsWatchers)) =>
       LET c == lastOp'.args[1]
       IN /\ c \in Keys(recordsWatchers')
          /\ Count(calls', "revalidateRecords", c) = 1
          /\ Count(calls', "recordsUpdated", c) = 0
          /\ Count(calls', "recordsRemoved", c) = 0
          /\ IF contents[c] = <<>>
             THEN Count(calls', "recordsAdded", c) = 0
             ELSE /\ Count(calls', "recordsAdded", c) = 1
                  /\ \E n \in 1..Len(calls') :
                       /\ calls'[n].cb = "recordsAdded"
                       /\ calls'[n].key = c
                       /\ calls'[n].list = [i \in 1..Len(contents[c]) |->
                                              [object |-> contents[c][i], color |-> "null"]]]_vars

\* C12 witness: a watchRecords call created the watcher of an array of three
\* records and reported them added in the array's order.
WatchedThreeInOrder ==
  /\ lastOp.op = "watchRecords"
  /\ contents["c1"] = <<"r2", "r3", "r1">>
  /\ \E n \in 1..Len(calls) :
       /\ calls[n].cb = "recordsAdded"
       /\ Len(calls[n].list) = 3
       /\ calls[n].list[1].object = "r2"

----------------------------------------------------------------------------
\* One revalidation of a TypeWatcher.

\* C13 as stated: the first revalidation of a TypeWatcher does not call
\* onChange; a later one calls it once when the records in the array are not
\* those of the previous revalidation, and not at all when they are the same.
OnChangeIffMembershipDiffers ==
  /\ lastOp.op = "watchModelTypes" => \A c \in Arrays : Count(calls, "typesUpdated", c) = 0
  /\ lastOp.op = "batchEnd" =>
       \A c \in Keys(typeWatchers) :
         Count(calls, "revalidateType", c) > 0 =>
           Count(calls, "typesUpdated", c) =
             (IF typeSnap[c].members # typeSnap[c].before THEN 1 ELSE 0)

\* C13 amended: a later revalidation calls onChange once when a record was
\* added to or removed from the array since the previous revalidation, whether
\* or not the records in the array are the same as then, and not at all
\* otherwise (so not when only fields of records were set).
OnChangeIffArrayChanged ==
  /\ lastOp.op = "watchModelTypes" => \A c \in Arrays : Count(calls, "typesUpdated", c) = 0
  /\ lastOp.op = "batchEnd" =>
       \A c \in Keys(typeWatchers) :
         Count(calls, "revalidateType", c) > 0 =>
           Count(calls, "typesUpdated", c) = (IF typeSnap[c].wasChanged THEN 1 ELSE 0)

\* C13 witness: a revalidation called onChange although the array holds the
\* records it held at the previous revalidation.
OnChangeWithSameMembers ==
  /\ lastOp.op = "batchEnd"
  /\ Count(calls, "revalidateType", "c1") = 1
  /\ Count(calls, "typesUpdated", "c1") = 1
  /\ typeSnap["c1"].wasChanged
  /\ typeSnap["c1"].members = typeSnap["c1"].before
  /\ typeSnap["c1"].members = {"r1"}

\* The list callback cb of the watcher of array c was given in the step's log,
\* empty when it was not called.
ListOf(log, cb, c) ==
  IF \E n \in 1..Len(log) : log[n].cb = cb /\ log[n].key = c
  THEN log[CHOOSE n \in 1..Len(log) : log[n].cb = cb /\ log[n].key = c].list
  ELSE <<>>

\* C15: a revalidation that runs the diff reports added the records of the
\* array that were not in it at the previous revalidation, in iteration order,
\* removed those that were in it then and are not now, updated those in it both
\* times that had a tracked field set since; no record is in two of the lists.
DiffIsExact ==
  [][\A c \in Keys(recordsWatchers') :
       Count(calls', "recordArrayCache", c) > 0 =>
         LET P == IF c \in Keys(recordsWatchers) THEN diff[c].prev ELSE {}
             T == IF c \in Keys(recordsWatchers) THEN diff[c].touched ELSE {}
             C == contents'[c]
             new == SelectSeq(C, LAMBDA r : r \notin P)
             added == ListOf(calls', "recordsAdded", c)
             updated == ListOf(calls', "recordsUpdated", c)
             removed == ListOf(calls', "recordsRemoved", c)
         IN /\ added = [i \in 1..Len(new) |-> [object |-> new[i], color |-> "null"]]
            /\ Objects(removed) = P \ SeqSet(C)
            /\ Len(removed) = Cardinality(P \ SeqSet(C))
            /\ Objects(updated) = P \cap SeqSet(C) \cap T
            /\ Len(updated) = Cardinality(P \cap SeqSet(C) \cap T)
            /\ Objects(added) \cap Objects(updated) = {}
            /\ Objects(added) \cap Objects(removed) = {}
            /\ Objects(updated) \cap Objects(removed) = {}]_vars

\* C15 witness: of three records known to the watcher, one had a field set and
\* is reported updated, one left the array and is reported removed, and the
\* third, still in the array and untouched, is not reported.
DiffSelective ==
  /\ lastOp.op = "batchEnd"
  /\ contents["c1"] = <<"r1", "r2">>
  /\ ListOf(calls, "recordsAdded", "c1") = <<>>
  /\ Objects(ListOf(calls, "recordsUpdated", "c1")) = {"r1"}
  /\ Objects(ListOf(calls, "recordsRemoved", "c1")) = {"r3"}

\* The records that have a cache in the watcher of array c.
CacheKeys(c) ==
  LET w == recordsWatchers[WatcherIndex(recordsWatchers, c)]
  IN {w.recordCaches[i].record : i \in 1..Len(w.recordCaches)}

\* C16: the records that have a cache in a RecordsWatcher are the records that
\* were in the array at the watcher's latest revalidation; right after a
\* revalidation they are the records in the array.
CachesAreLastSeen ==
  \A c \in Keys(recordsWatchers) :
    /\ CacheKeys(c) = diff[c].prev
    /\ c \in Revalidated(calls, "revalidateRecords") => CacheKeys(c) = SeqSet(contents[c])

\* C16 witness: a revalidation found two records gone and one new; the caches
\* of the two are discarded, the new record has one.
CachesFollowArray ==
  /\ lastOp.op = "batchEnd"
  /\ Objects(ListOf(calls, "recordsRemoved", "c1")) = {"r1", "r2"}
  /\ Objects(ListOf(calls, "recordsAdded", "c1")) = {"r3"}
  /\ "c1" \in Keys(recordsWatchers)
  /\ CacheKeys("c1") = {"r3"}

\* C18: after a record was reported removed, setting its tracked fields
\* while it stays out of the array, with no other change, does not make the next
\* revalidation run the diff or call a callback; and a record reported removed
\* that is still out of the array is in no list of a later revalidation.
RemovedRecordNotPolled ==
  [][\A c \in Keys(recordsWatchers) \cap Keys(recordsWatchers') :
       c \in Revalidated(calls', "revalidateRecords") =>
         /\ (diff[c].gone \cap diff[c].touched # {} /\ ~diff[c].changed) =>
              /\ Count(calls', "recordArrayCache", c) = 0
              /\ \A cb \in RecordCallbacks : Count(calls', cb, c) = 0
         /\ \A cb \in RecordCallbacks :
              Objects(ListOf(calls', cb, c)) \cap (diff[c].gone \ SeqSet(contents'[c])) = {}]_vars

\* C18 witness: a revalidate() call made after fields of a removed record were
\* set, the record still out of the array, ran nothing.
RemovedRecordTouchedIdle ==
  /\ lastOp.op = "batchEnd"
  /\ Count(calls, "revalidateRecords", "c1") = 1
  /\ Count(calls, "recordArrayCache", "c1") = 0
  /\ diff["c1"].wasGoneTouched = {"r2"}
  /\ contents["c1"] = <<"r1">>

\* C20: a record that was reported removed and is in the array again at a
\* revalidation is reported added there, not updated, whether or not its
\* fields were set while it was out of the array, and has a cache that has run.
ReaddedIsAdded ==
  [][\A c \in Keys(recordsWatchers) \cap Keys(recordsWatchers') :
       c \in Revalidated(calls', "revalidateRecords") =>
         \A r \in diff[c].gone \cap SeqSet(contents'[c]) :
           /\ r \in Objects(ListOf(calls', "recordsAdded", c))
           /\ r \notin Objects(ListOf(calls', "recordsUpdated", c))
           /\ r \notin Objects(ListOf(calls', "recordsRemoved", c))
           /\ r \notin diff'[c].gone]_vars

\* C20 witness: a record whose fields were set while it was reported removed
\* is back in the array and reported added, next to a record reported updated.
ReaddedAfterTouched ==
  /\ lastOp.op = "batchEnd"
  /\ diff["c1"].wasGoneTouched = {"r2"}
  /\ contents["c1"] = <<"r1", "r2">>
  /\ Objects(ListOf(calls, "recordsAdded", "c1")) = {"r2"}
  /\ Objects(ListOf(calls, "recordsUpdated", "c1")) = {"r1"}

----------------------------------------------------------------------------
\* Released watches.

----------------------------------------------------------------------------
\* Release functions called from inside a flush.

\* Log entries s..e are one pass of flushWatchers that returned.
PassOf(s, e) ==
  /\ s < e
  /\ calls[s].cb = "flushWatchers"
  /\ calls[e].cb = "flushed"
  /\ \A n \in (s + 1)..(e - 1) : calls[n].cb \notin {"flushWatchers", "flushed"}

\* The pass that starts at log entry s returned, with every watcher that is
\* registered at its end revalidated in it.
PassComplete(s) ==
  \E e \in 1..Len(calls) :
    /\ PassOf(s, e)
    /\ \A c \in SeqSet(calls[e].list[1]) :
         \E n \in s..e : calls[n].cb = "revalidateType" /\ calls[n].key = c
    /\ \A c \in SeqSet(calls[e].list[2]) :
         \E n \in s..e : calls[n].cb = "revalidateRecords" /\ calls[n].key = c

\* Log entries p < n belong to one pass.
SamePass(p, n) ==
  p < n /\ \A m \in (p + 1)..n : calls[m].cb # "flushWatchers"

----------------------------------------------------------------------------
\* A second watchRecords call for a watched array.

====
